---- MODULE Spec2Model ----
(***************************************************************************)
(* Model of Comunicacion-Serial/src/main.cpp: an ESP32 sketch that reads   *)
(* one text line per loop() iteration from the serial port, converts it    *)
(* with String::toInt, moves a servo when the value is in [0,180], and     *)
(* serves the position and the performance statistics over HTTP.           *)
(*                                                                         *)
(* A serial line is a sequence of one-character strings.  The HTTP         *)
(* response last sent is kept as a record of the values the page shows.    *)
(***************************************************************************)
EXTENDS Integers, Sequences, FiniteSets, TLC

\* ---------------------------------------------------------------- bounds
MaxSerial == 1      \* lines waiting in the UART receive buffer
MaxWeb == 1         \* HTTP requests waiting to be served
MaxMessages == 2    \* cap on totalMessages
MaxTime == 2        \* millis() readings are drawn from 0..MaxTime
MaxLongRun == 102   \* cap on totalMessages in the long run (LongSpec)

\* ------------------------------------------------------ program constants
INTERVAL_HISTORY_SIZE == 100
\* unsigned long is modelled 30 bits wide (the model checker's integers
\* are 32-bit signed): ULONG_MAX is the largest value of that type.
ULONG_MAX == 1073741823
ULONG_MOD == ULONG_MAX + 1
InitialAngle == 90
NotWritten == -1    \* myServo has been attached but never written

\* ---------------------------------------------------------------- inputs
InputLines ==
  { <<"0">>, <<"1","8","0">>, <<"1","8","1">>, <<"-","1">>,
    <<"b","a","d">> }

AngleLine == <<"0">>

Paths == { "/", "/datos", "/stats", "/resetstats", "/favicon.ico" }

Times == 0..MaxTime

VARIABLES
  currentPan, currentTilt, angulo, servoAngle,
  totalMessages, stressTestMessages, lastMessageTime, stressTestStartTime,
  minInterval, maxInterval, totalInterval, stressTestActive, lastErrorCount,
  intervalHistory, intervalHistoryIndex,
  serialIn, webQueue, response, pc

position == <<currentPan, currentTilt>>
actuator == <<angulo, servoAngle>>
timing == <<lastMessageTime, minInterval, maxInterval, totalInterval,
            intervalHistory, intervalHistoryIndex>>
stress == <<stressTestMessages, stressTestStartTime, stressTestActive>>
counters == <<totalMessages, lastErrorCount>>
statistics == <<counters, timing, stress>>
vars == <<position, actuator, statistics, serialIn, webQueue, response, pc>>

\* ------------------------------------------------------------ conversions
Min(a, b) == IF a <= b THEN a ELSE b

DigitChars == <<"0","1","2","3","4","5","6","7","8","9">>
IsDigit(c) == \E d \in 1..10 : DigitChars[d] = c
DigitVal(c) == (CHOOSE d \in 1..10 : DigitChars[d] = c) - 1
IsSpace(c) == c \in {" ", "\t", "\r"}

RECURSIVE SkipSpace(_)
SkipSpace(s) ==
  IF s /= <<>> /\ IsSpace(Head(s)) THEN SkipSpace(Tail(s)) ELSE s

RECURSIVE ParseDigits(_, _)
ParseDigits(s, acc) ==
  IF s /= <<>> /\ IsDigit(Head(s))
    THEN ParseDigits(Tail(s), 10 * acc + DigitVal(Head(s)))
    ELSE acc

\* String::toInt is atol on the buffer: leading blanks are skipped, one
\* optional sign is read, then digits up to the first other character; a
\* text with no digits there converts to 0.  Lines are short enough that
\* the value fits a 32-bit long.
toInt(s) ==
  LET t == SkipSpace(s)
      signed == t /= <<>> /\ Head(t) \in {"-", "+"}
      mag == ParseDigits(IF signed THEN Tail(t) ELSE t, 0)
  IN IF signed /\ Head(t) = "-" THEN -mag ELSE mag

InRangePositive(a) == a > 0 /\ a <= 180
InRangeLow(a) == a <= 180
InRange(a) == a >= 0 /\ a <= 180

\* ---------------------------------------------------------- page contents
\* String(x * 1000.0 / d, 2): the rate in hundredths of a message per
\* second, rounded; a zero duration makes the float division yield inf
\* (or nan for 0/0), which is printed as such.
Rate(messages, duration) ==
  IF duration = 0
    THEN (IF messages = 0 THEN "nan" ELSE "inf")
    ELSE (2 * messages * 100000 + duration) \div (2 * duration)

\* String(v / 1000.0, 1): a history slot in tenths of a millisecond, rounded.
Tenths(v) == (v + 50) \div 100

StressView(now) ==
  IF stressTestActive
    THEN LET elapsedTime == (now - stressTestStartTime) % ULONG_MOD
         IN [state |-> "active", time |-> elapsedTime,
             messages |-> stressTestMessages,
             rate |-> Rate(stressTestMessages, elapsedTime)]
    ELSE IF stressTestMessages > 0
      THEN LET testDuration ==
                 (lastMessageTime - stressTestStartTime) % ULONG_MOD
           IN [state |-> "last", time |-> testDuration,
               messages |-> stressTestMessages,
               rate |-> Rate(stressTestMessages, testDuration)]
      ELSE [state |-> "none"]

IntervalViewFromOne ==
  IF totalMessages >= 1
    THEN [shown |-> TRUE, min |-> minInterval, max |-> maxInterval,
          avg |-> IF totalMessages = 1
                    THEN "nan"
                    ELSE (2 * totalInterval + (totalMessages - 1))
                           \div (2 * (totalMessages - 1))]
    ELSE [shown |-> FALSE]

IntervalView ==
  IF totalMessages > 1
    THEN [shown |-> TRUE, min |-> minInterval, max |-> maxInterval,
          avg |-> (2 * totalInterval + (totalMessages - 1))
                    \div (2 * (totalMessages - 1))]
    ELSE [shown |-> FALSE]

\* The % of C on int: the remainder takes the sign of the dividend.
CRem(a, b) == IF a >= 0 THEN a % b ELSE -((-a) % b)

displayCount == Min(totalMessages - 1, INTERVAL_HISTORY_SIZE)

startIdxNoOffset ==
  CRem(intervalHistoryIndex - displayCount, INTERVAL_HISTORY_SIZE)

startIdx ==
  CRem(intervalHistoryIndex - displayCount + INTERVAL_HISTORY_SIZE,
       INTERVAL_HISTORY_SIZE)

HistoryIdx(i) == CRem(startIdx + i, INTERVAL_HISTORY_SIZE)

HistoryView ==
  IF totalMessages > 1
    THEN [shown |-> TRUE,
          entries |-> [i \in 1..displayCount |->
                         Tenths(intervalHistory[HistoryIdx(i - 1)])]]
    ELSE [shown |-> FALSE]

StatsPage(now) ==
  [kind |-> "stats", total |-> totalMessages, stress |-> StressView(now),
   intervals |-> IntervalView, errors |-> lastErrorCount,
   history |-> HistoryView]

RootPage ==
  [kind |-> "root", pan |-> currentPan, tilt |-> currentTilt,
   total |-> totalMessages]

DataPage == [kind |-> "datos", pan |-> currentPan, tilt |-> currentTilt]

\* ------------------------------------------------------------------ state
Init ==
  /\ currentPan = InitialAngle
  /\ currentTilt = InitialAngle
  /\ angulo = InitialAngle
  /\ servoAngle = NotWritten
  /\ totalMessages = 0
  /\ stressTestMessages = 0
  /\ lastMessageTime = 0
  /\ stressTestStartTime = 0
  /\ minInterval = ULONG_MAX
  /\ maxInterval = 0
  /\ totalInterval = 0
  /\ stressTestActive = FALSE
  /\ lastErrorCount = 0
  /\ intervalHistory = [i \in 0..(INTERVAL_HISTORY_SIZE - 1) |-> 0]
  /\ intervalHistoryIndex = 0
  /\ serialIn = <<>>
  /\ webQueue = <<>>
  /\ response = [kind |-> "none"]
  /\ pc = "handleClient"

\* ------------------------------------------------------------ environment
\* The lines waiting in the receive buffer that loop() will accept.
PendingAccepted ==
  Cardinality({i \in 1..Len(serialIn) : InRange(toInt(serialIn[i]))})

\* A complete line reaches the UART receive buffer.  The sender stops
\* sending acceptable lines once `cap` of them are counted or waiting, which
\* keeps totalMessages bounded without ever holding loop() back.
SerialArriveUpTo(line, cap) ==
  /\ Len(serialIn) < MaxSerial
  /\ InRange(toInt(line)) => totalMessages + PendingAccepted < cap
  /\ serialIn' = Append(serialIn, line)
  /\ UNCHANGED <<position, actuator, statistics, webQueue, response, pc>>

SerialArrive(line) == SerialArriveUpTo(line, MaxMessages)

\* A browser sends a request for a path.
ClientRequest(path) ==
  /\ Len(webQueue) < MaxWeb
  /\ webQueue' = Append(webQueue, path)
  /\ UNCHANGED <<position, actuator, statistics, serialIn, response, pc>>

\* ------------------------------------------------ loop(): handleClient()
DispatchStay(path) ==
  /\ pc = "handleClient"
  /\ webQueue /= <<>>
  /\ Head(webQueue) = path
  /\ webQueue' = Tail(webQueue)
  /\ pc' = pc

Dispatch(path) ==
  /\ pc = "handleClient"
  /\ webQueue /= <<>>
  /\ Head(webQueue) = path
  /\ webQueue' = Tail(webQueue)
  /\ pc' = "serial"

\* server.handleClient() returns without calling a handler: no client, or
\* the request has not been read completely yet.
HandleClientIdle ==
  /\ pc = "handleClient"
  /\ pc' = "serial"
  /\ UNCHANGED <<position, actuator, statistics, serialIn, webQueue,
                 response>>

handleRoot ==
  /\ Dispatch("/")
  /\ response' = RootPage
  /\ UNCHANGED <<position, actuator, statistics, serialIn>>

handleData ==
  /\ Dispatch("/datos")
  /\ response' = DataPage
  /\ UNCHANGED <<position, actuator, statistics, serialIn>>

handleNotFound ==
  /\ \E path \in Paths \ {"/", "/datos", "/stats", "/resetstats"} :
       Dispatch(path)
  /\ response' = [kind |-> "notfound"]
  /\ UNCHANGED <<position, actuator, statistics, serialIn>>

handleStatsCounting ==
  /\ Dispatch("/stats")
  /\ totalMessages < MaxMessages
  /\ totalMessages' = totalMessages + 1
  /\ \E now \in Times : response' = StatsPage(now)
  /\ UNCHANGED <<position, actuator, lastErrorCount, timing, stress,
                 serialIn>>

handleStats ==
  /\ Dispatch("/stats")
  /\ \E now \in Times : response' = StatsPage(now)
  /\ UNCHANGED <<position, actuator, statistics, serialIn>>

handleResetStatsRecentre ==
  /\ Dispatch("/resetstats")
  /\ totalMessages' = 0
  /\ stressTestMessages' = 0
  /\ stressTestStartTime' = 0
  /\ stressTestActive' = FALSE
  /\ lastMessageTime' = 0
  /\ minInterval' = ULONG_MAX
  /\ maxInterval' = 0
  /\ totalInterval' = 0
  /\ lastErrorCount' = 0
  /\ intervalHistory' = [i \in 0..(INTERVAL_HISTORY_SIZE - 1) |-> 0]
  /\ intervalHistoryIndex' = 0
  /\ currentPan' = InitialAngle
  /\ response' = [kind |-> "redirect", location |-> "/stats"]
  /\ UNCHANGED <<currentTilt, actuator, serialIn>>

handleResetStatsKeepTotal ==
  /\ Dispatch("/resetstats")
  /\ stressTestMessages' = 0
  /\ stressTestStartTime' = 0
  /\ stressTestActive' = FALSE
  /\ lastMessageTime' = 0
  /\ minInterval' = ULONG_MAX
  /\ maxInterval' = 0
  /\ totalInterval' = 0
  /\ lastErrorCount' = 0
  /\ intervalHistory' = [i \in 0..(INTERVAL_HISTORY_SIZE - 1) |-> 0]
  /\ intervalHistoryIndex' = 0
  /\ response' = [kind |-> "redirect", location |-> "/stats"]
  /\ UNCHANGED <<totalMessages, position, actuator, serialIn>>

handleResetStats ==
  /\ Dispatch("/resetstats")
  /\ totalMessages' = 0
  /\ stressTestMessages' = 0
  /\ stressTestStartTime' = 0
  /\ stressTestActive' = FALSE
  /\ lastMessageTime' = 0
  /\ minInterval' = ULONG_MAX
  /\ maxInterval' = 0
  /\ totalInterval' = 0
  /\ lastErrorCount' = 0
  /\ intervalHistory' = [i \in 0..(INTERVAL_HISTORY_SIZE - 1) |-> 0]
  /\ intervalHistoryIndex' = 0
  /\ response' = [kind |-> "redirect", location |-> "/stats"]
  /\ UNCHANGED <<position, actuator, serialIn>>

\* ------------------------------------------- loop(): the serial section
\* Serial.available() is 0: nothing is read, delay(10), next iteration.
LoopNoSerial ==
  /\ pc = "serial"
  /\ serialIn = <<>>
  /\ pc' = "handleClient"
  /\ UNCHANGED <<position, actuator, statistics, serialIn, webQueue,
                 response>>

LoopSerialCountErrors ==
  /\ pc = "serial"
  /\ serialIn /= <<>>
  /\ LET angleString == Head(serialIn)
         value == toInt(angleString)
     IN /\ serialIn' = Tail(serialIn)
        /\ angulo' = value
        /\ IF InRange(value)
             THEN /\ servoAngle' = value
                  /\ currentPan' = value
                  /\ totalMessages' = totalMessages + 1
                  /\ UNCHANGED lastErrorCount
             ELSE /\ lastErrorCount' = Min(lastErrorCount + 1, MaxMessages)
                  /\ UNCHANGED <<servoAngle, currentPan, totalMessages>>
  /\ pc' = "handleClient"
  /\ UNCHANGED <<currentTilt, timing, stress, webQueue, response>>

LoopSerialHaltOnInvalid ==
  /\ pc = "serial"
  /\ serialIn /= <<>>
  /\ LET angleString == Head(serialIn)
         value == toInt(angleString)
     IN /\ serialIn' = Tail(serialIn)
        /\ angulo' = value
        /\ IF InRange(value)
             THEN /\ servoAngle' = value
                  /\ currentPan' = value
                  /\ totalMessages' = totalMessages + 1
                  /\ pc' = "handleClient"
             ELSE /\ UNCHANGED <<servoAngle, currentPan, totalMessages>>
                  /\ pc' = "halted"
  /\ UNCHANGED <<currentTilt, lastErrorCount, timing, stress, webQueue,
                 response>>

LoopSerialCountAll ==
  /\ pc = "serial"
  /\ serialIn /= <<>>
  /\ LET angleString == Head(serialIn)
         value == toInt(angleString)
     IN /\ serialIn' = Tail(serialIn)
        /\ angulo' = value
        /\ totalMessages' = totalMessages + 1
        /\ IF InRange(value)
             THEN /\ servoAngle' = value
                  /\ currentPan' = value
             ELSE UNCHANGED <<servoAngle, currentPan>>
  /\ pc' = "handleClient"
  /\ UNCHANGED <<currentTilt, lastErrorCount, timing, stress, webQueue,
                 response>>

LoopSerialKeepPan ==
  /\ pc = "serial"
  /\ serialIn /= <<>>
  /\ LET angleString == Head(serialIn)
         value == toInt(angleString)
     IN /\ serialIn' = Tail(serialIn)
        /\ angulo' = value
        /\ IF InRange(value)
             THEN /\ servoAngle' = value
                  /\ totalMessages' = totalMessages + 1
             ELSE UNCHANGED <<servoAngle, totalMessages>>
  /\ pc' = "handleClient"
  /\ UNCHANGED <<position, lastErrorCount, timing, stress, webQueue,
                 response>>

\* One line is read and converted; a value in [0,180] is written to the
\* servo, stored as the pan position and counted; then delay(10).
LoopSerial ==
  /\ pc = "serial"
  /\ serialIn /= <<>>
  /\ LET angleString == Head(serialIn)
         value == toInt(angleString)
     IN /\ serialIn' = Tail(serialIn)
        /\ angulo' = value
        /\ IF InRange(value)
             THEN /\ servoAngle' = value
                  /\ currentPan' = value
                  /\ totalMessages' = totalMessages + 1
             ELSE UNCHANGED <<servoAngle, currentPan, totalMessages>>
  /\ pc' = "handleClient"
  /\ UNCHANGED <<currentTilt, lastErrorCount, timing, stress, webQueue,
                 response>>

Next ==
  \/ \E line \in InputLines : SerialArrive(line)
  \/ \E path \in Paths : ClientRequest(path)
  \/ HandleClientIdle
  \/ handleRoot
  \/ handleData
  \/ handleStats
  \/ handleResetStats
  \/ handleNotFound
  \/ LoopNoSerial
  \/ LoopSerial

Spec == Init /\ [][Next]_vars

\* The program with a browser that only asks for a reset: the serial side
\* of loop() with the one handler that changes what it counts.
SerialNext ==
  \/ \E line \in InputLines : SerialArrive(line)
  \/ ClientRequest("/resetstats")
  \/ HandleClientIdle
  \/ handleResetStats
  \/ LoopNoSerial
  \/ LoopSerial

\* The program fed the line "0" over and over, with a browser that only
\* reads the statistics: totalMessages grows past the history capacity.
LongNext ==
  \/ SerialArriveUpTo(AngleLine, MaxLongRun)
  \/ ClientRequest("/stats")
  \/ HandleClientIdle
  \/ handleStats
  \/ LoopNoSerial
  \/ LoopSerial

LongSpec == Init /\ [][LongNext]_vars

\* One pass through a section of loop().  The Arduino runtime calls loop()
\* again as soon as it returns, forever, and no section can block.
LoopStep ==
  \/ HandleClientIdle
  \/ handleResetStats
  \/ LoopNoSerial
  \/ LoopSerial

FairSpec == Init /\ [][SerialNext]_vars /\ WF_vars(LoopStep)

\* ============================================================= properties
\* The step reads one line from the serial port.
ReadsLine == Len(serialIn') < Len(serialIn)

\* The step calls the handler registered for the request at the head of
\* the queue.
Served(path) == Len(webQueue') < Len(webQueue) /\ Head(webQueue) = path

\* The decimal text of a natural number.
RECURSIVE IntToText(_)
IntToText(v) ==
  IF v < 10
    THEN <<DigitChars[v + 1]>>
    ELSE Append(IntToText(v \div 10), DigitChars[(v % 10) + 1])

\* The text is an optionally signed, non-empty run of digits.
IsIntegerText(s) ==
  LET body == IF s /= <<>> /\ Head(s) = "-" THEN Tail(s) ELSE s
  IN body /= <<>> /\ \A i \in 1..Len(body) : IsDigit(body[i])

ValidAngles == 0..180
AngleText == [v \in ValidAngles |-> IntToText(v)]

\* C1: every integer v in [0,180] written as decimal text converts to v,
\* and a step of loop() that reads such a line
\* increases totalMessages by exactly 1, writes v to the servo and leaves
\* currentPan = v.
C1_AcceptsWellFormed ==
  /\ \A v \in ValidAngles : toInt(AngleText[v]) = v
  /\ [][ReadsLine
          => \A v \in ValidAngles :
               Head(serialIn) = AngleText[v]
                 => /\ totalMessages' = totalMessages + 1
                    /\ servoAngle' = v
                    /\ currentPan' = v]_vars

C1_Witness ==
  totalMessages = 2 /\ angulo = 180 /\ servoAngle = 180 /\ currentPan = 180

\* C2: a line that is not the text of an integer is rejected: the error
\* counter increases by 1 and totalMessages, the current position and the
\* servo are left as they were.
C2_NonNumericRejected ==
  [][(ReadsLine /\ ~IsIntegerText(Head(serialIn)))
       => /\ lastErrorCount' = lastErrorCount + 1
          /\ UNCHANGED <<totalMessages, currentPan, servoAngle>>]_vars

\* C3: a line whose integer value is outside [0,180] leaves totalMessages
\* unchanged and increases the error counter by exactly 1.
C3_OutOfRangeCounted ==
  [][(ReadsLine /\ IsIntegerText(Head(serialIn)) /\ angulo' \notin ValidAngles)
       => /\ totalMessages' = totalMessages
          /\ lastErrorCount' = lastErrorCount + 1]_vars

\* C4: a line converted to a value outside [0,180] leaves the position the
\* position query returns, the last value written to the servo,
\* lastMessageTime, minInterval, maxInterval, totalInterval, the interval
\* history and its write index as they were.
C4_RejectionFrame ==
  [][(ReadsLine /\ angulo' \notin ValidAngles)
       => /\ UNCHANGED <<currentPan, servoAngle, timing>>
          /\ DataPage' = DataPage]_vars

C4_Witness ==
  angulo \notin ValidAngles /\ servoAngle = 180 /\ currentPan = 180
    /\ totalMessages >= 1

\* C5: when a command is accepted that is not the first one accepted since
\* startup or reset, the interval t - lastMessageTime is folded into
\* minInterval, maxInterval and totalInterval, stored in the history slot
\* under the write index, the index advances, and lastMessageTime becomes t.
C5_IntervalRecorded ==
  [][(ReadsLine /\ totalMessages >= 1 /\ totalMessages' = totalMessages + 1)
       => \E t \in Times :
            LET interval == (t - lastMessageTime) % ULONG_MOD
            IN /\ lastMessageTime' = t
               /\ minInterval' = Min(minInterval, interval)
               /\ maxInterval' = IF interval > maxInterval
                                   THEN interval ELSE maxInterval
               /\ totalInterval' = (totalInterval + interval) % ULONG_MOD
               /\ intervalHistory' = [intervalHistory EXCEPT
                                        ![intervalHistoryIndex] = interval]
               /\ intervalHistoryIndex' =
                    (intervalHistoryIndex + 1) % INTERVAL_HISTORY_SIZE]_vars

\* C6: once a command has been accepted, the number of intervals recorded
\* since the last reset is totalMessages - 1 (so the write index, which
\* advances by one per recorded interval, is that number modulo the
\* capacity), and the statistics page lists min(totalMessages - 1, N)
\* history entries.
C6_HistoryCount ==
  totalMessages >= 1
    => /\ intervalHistoryIndex = (totalMessages - 1) % INTERVAL_HISTORY_SIZE
       /\ totalMessages > 1
            => Len(HistoryView.entries)
                 = Min(totalMessages - 1, INTERVAL_HISTORY_SIZE)

\* C7: whenever the statistics page reports min/max (totalMessages > 1),
\* minInterval <= maxInterval and every history slot the page lists lies
\* between them.
C7_MinMaxBracket ==
  totalMessages > 1
    => /\ minInterval <= maxInterval
       /\ \A i \in 1..displayCount :
            /\ minInterval <= intervalHistory[HistoryIdx(i - 1)]
            /\ intervalHistory[HistoryIdx(i - 1)] <= maxInterval

\* The state of the statistics right after construction.
ResetState ==
  /\ totalMessages = 0
  /\ lastErrorCount = 0
  /\ minInterval = ULONG_MAX
  /\ maxInterval = 0
  /\ totalInterval = 0
  /\ lastMessageTime = 0
  /\ \A i \in 0..(INTERVAL_HISTORY_SIZE - 1) : intervalHistory[i] = 0
  /\ intervalHistoryIndex = 0
  /\ ~stressTestActive
  /\ stressTestMessages = 0
  /\ stressTestStartTime = 0

EmptyStatsPage ==
  [kind |-> "stats", total |-> 0, stress |-> [state |-> "none"],
   intervals |-> [shown |-> FALSE], errors |-> 0,
   history |-> [shown |-> FALSE]]

\* C8: handleResetStats leaves every statistic at its initial value, and a
\* statistics page built right after it shows total 0, errors 0, no
\* min/max/mean section, no history and no stress session.
C8_ResetThenRead ==
  [][Served("/resetstats")
       => /\ ResetState'
          /\ \A now \in Times : StatsPage(now)' = EmptyStatsPage]_vars

C8_Witness ==
  /\ response.kind = "redirect"
  /\ pc = "serial"
  /\ totalMessages = 0
  /\ currentPan /= InitialAngle

\* C9: a web handler runs only in the handleClient() call of loop(), one
\* request per call, and reads no serial line; a serial line is read only
\* after that call has returned, one line per iteration, and serves no
\* request; the statistics, the position and the servo change only in such
\* steps; a reset is complete in its step and a statistics page shows the
\* state as it is when the handler returns.
C9_NoInterleaving ==
  [][/\ Len(webQueue') < Len(webQueue)
          => /\ pc = "handleClient" /\ pc' = "serial"
             /\ Len(webQueue') = Len(webQueue) - 1
             /\ UNCHANGED <<serialIn, position, actuator>>
     /\ ReadsLine
          => /\ pc = "serial" /\ pc' = "handleClient"
             /\ Len(serialIn') = Len(serialIn) - 1
             /\ UNCHANGED <<webQueue, response>>
     /\ <<position, actuator, statistics>>' /= <<position, actuator, statistics>>
          => ReadsLine \/ Served("/resetstats")
     /\ Served("/resetstats") => ResetState'
     /\ Served("/stats")
          => \E now \in Times : response' = StatsPage(now)']_vars

C9_Witness ==
  /\ response.kind = "redirect"
  /\ pc = "handleClient"
  /\ totalMessages = 1
  /\ angulo = currentPan

\* C10: the statistics page and both position reads change no counter,
\* statistic, history slot, write index, stress field or position, and a
\* statistics page built right after a statistics read equals the one just
\* sent.
C10_ReadsDoNotMutate ==
  [][(Served("/stats") \/ Served("/datos") \/ Served("/"))
       => /\ UNCHANGED <<position, actuator, statistics>>
          /\ Served("/stats")
               => \A now \in Times : StatsPage(now)' = response']_vars

C10_Witness ==
  /\ response.kind = "stats"
  /\ response.total = 2
  /\ response.history.shown
  /\ totalMessages = 2

\* C11: a statistics page reports a mean, together with min, max and the
\* history, exactly when totalMessages > 1; the mean is then totalInterval
\* divided by totalMessages - 1 (rounded to the unit shown), and with
\* totalMessages 0 or 1 none of them is reported and nothing is divided.
C11_MeanOnlyAboveOne ==
  [][Served("/stats")
       => /\ response'.intervals.shown = (totalMessages > 1)
          /\ response'.history.shown = (totalMessages > 1)
          /\ totalMessages <= 1
               => /\ response'.intervals = [shown |-> FALSE]
                  /\ response'.history = [shown |-> FALSE]
          /\ totalMessages > 1
               => LET n == totalMessages - 1
                      avg == response'.intervals.avg
                  IN /\ 2 * n * avg <= 2 * totalInterval + n
                     /\ 2 * totalInterval + n < 2 * n * (avg + 1)]_vars

C11_Witness ==
  /\ response.kind = "stats"
  /\ response.total = 1
  /\ totalMessages = 1
  /\ ~response.intervals.shown

\* C14: in every state currentPan is in [0,180]; it is the initial position
\* while no command has been accepted since startup, and otherwise the
\* value of the most recently accepted command, which is also the value
\* last written to the servo; the position query returns it.
C14_PositionIsLastAccepted ==
  /\ [](/\ currentPan \in ValidAngles
        /\ DataPage.pan = currentPan
        /\ servoAngle = NotWritten => currentPan = InitialAngle
        /\ servoAngle /= NotWritten => currentPan = servoAngle)
  /\ [][/\ (ReadsLine /\ angulo' \in ValidAngles) => currentPan' = angulo'
        /\ ~(ReadsLine /\ angulo' \in ValidAngles)
             => currentPan' = currentPan]_vars

C14_Witness ==
  /\ currentPan = 0
  /\ servoAngle = 0
  /\ angulo = -1
  /\ response.kind = "datos"
  /\ response.pan = 0

\* The step reads a line and accepts it as a command.
Accepts == ReadsLine /\ angulo' \in ValidAngles

\* C15: totalMessages starts at 0, a step that accepts a command increases
\* it by exactly 1, handleResetStats sets it to 0 and every other step
\* leaves it unchanged; so it never decreases except on reset and it is the
\* number of commands accepted since the last reset (or since startup).
C15_TotalCountsAccepted ==
  /\ totalMessages = 0
  /\ [][/\ ~Served("/resetstats")
             => totalMessages' \in {totalMessages, totalMessages + 1}
        /\ Accepts => totalMessages' = totalMessages + 1
        /\ Served("/resetstats") => totalMessages' = 0
        /\ ~Accepts /\ ~Served("/resetstats")
             => totalMessages' = totalMessages]_vars

C15_Witness ==
  /\ response.kind = "redirect"
  /\ totalMessages = 1
  /\ servoAngle = 0
  /\ angulo \notin ValidAngles

\* The serial section of loop() runs and returns.
SerialSection == pc = "serial" /\ pc' = "handleClient"

HistorySlots == 0..(INTERVAL_HISTORY_SIZE - 1)

\* C17: the write index is always a slot of the history, and whenever the
\* statistics page lists the history (totalMessages > 1) the start index
\* and every index it reads, computed from the write index and
\* displayCount, is a slot of the history, for few messages as for more
\* than the capacity.
C17_IndicesInRange ==
  /\ intervalHistoryIndex \in HistorySlots
  /\ totalMessages > 1
       => /\ displayCount \in 1..INTERVAL_HISTORY_SIZE
          /\ startIdx \in HistorySlots
          /\ \A i \in 0..(displayCount - 1) : HistoryIdx(i) \in HistorySlots

C17_Witness ==
  /\ totalMessages > INTERVAL_HISTORY_SIZE + 1
  /\ response.kind = "stats"
  /\ response.total = totalMessages
  /\ Len(response.history.entries) = INTERVAL_HISTORY_SIZE

C19_ResetKeepsPosition ==
  [][Served("/resetstats")
       => /\ UNCHANGED <<currentPan, currentTilt, angulo, servoAngle>>
          /\ DataPage' = DataPage]_vars

C19_Witness ==
  /\ response.kind = "redirect"
  /\ pc = "serial"
  /\ totalMessages = 0
  /\ currentPan = 180
  /\ angulo = 180
  /\ DataPage.pan = 180
====
